---- MODULE Spec2Model ----
(***************************************************************************)
(* Model of modular_boost_test/main.cpp: main() creates an io_context,     *)
(* a steady_timer expiring 2 seconds after its construction, registers a   *)
(* completion handler with async_wait, runs the io_context and returns 0.  *)
(*                                                                         *)
(* The statements of main are the actions below, one per statement, in     *)
(* program order (pc names the next statement).  io.run() is modelled by   *)
(* its loop: the reactor moves an expired wait to the ready queue          *)
(* (ReactorWait), a ready operation is popped and its handler invoked      *)
(* (Dispatch), and run() returns once no work is outstanding (RunReturn).  *)
(* Time is the steady clock; it may advance between any two steps (Tick).  *)
(***************************************************************************)
EXTENDS Integers, Sequences, FiniteSets, TLC

VARIABLES
    pc,              \* the next statement of main
    clock,           \* std::chrono::steady_clock::now(), in seconds
    io,              \* TRUE once the io_context is constructed
    timer,           \* [constructed, expiry]: the steady_timer object
    timerQueue,      \* wait operations pending in the reactor's timer queue
    opQueue,         \* completed operations ready to be dispatched (their ec)
    outstandingWork, \* the io_context's count of unfinished operations
    out,             \* lines written to std::cout
    err,             \* lines written to std::cerr
    exitCode,        \* the set holding main's return value, empty until it returns
    handlerCalls,    \* history: how many times the lambda has been invoked
    handlerEc,       \* history: the error_code the lambda last received
    armTime,         \* history: the clock when the timer was constructed
    startTime,       \* history: the clock when "Starting timer..." was printed
    handlerTime,     \* history: the clock when the lambda was invoked
    run,             \* history: which run of the program this is, from 1
    prev             \* history: what the previous run printed and returned

vars == <<pc, clock, io, timer, timerQueue, opQueue, outstandingWork, out, err,
          exitCode, handlerCalls, handlerEc, armTime, startTime, handlerTime,
          run, prev>>

\* Idle seconds the clock may advance while nothing waits on the timer.
MaxClock == 3

\* How many times the program is run in a row.
MaxRuns == 2

\* std::chrono::seconds(2)
Delay == 2

\* boost::system::error_code values the wait can complete with.
Success == "success"
OperationAborted == "operation_aborted"

StartingLine == "Starting timer..."
WaitingLine == "Waiting for timer..."
SuccessLine == "Timer expired! Hello from Boost.Asio!"
DoneLine == "Done!"

\* ec.message()
Message(ec) == IF ec = OperationAborted THEN "Operation canceled" ELSE "Success"

\* The line the else branch writes: "Timer error: " << ec.message() << "\n"
ErrorLine(ec) == <<"Timer error: ", Message(ec)>>

\* !ec
\* Variant of NotEc: the test is inverted.
NotEcInverted(ec) == ec # Success
NotEc(ec) == ec = Success

\* The lambda's effect on std::cout.
\* Variant of HandlerOut: the success branch prints nothing.
HandlerOutDropsSuccess(ec, o) == o
HandlerOut(ec, o) == IF NotEc(ec) THEN Append(o, SuccessLine) ELSE o

\* The lambda's effect on std::cerr.
\* Variant of HandlerErr: the else branch prints nothing.
HandlerErrSilent(ec, e) == e
HandlerErr(ec, e) == IF NotEc(ec) THEN e ELSE Append(e, ErrorLine(ec))

Init ==
    /\ pc = "io_ctor"
    /\ clock = 0
    /\ io = FALSE
    /\ timer = [constructed |-> FALSE, expiry |-> 0]
    /\ timerQueue = {}
    /\ opQueue = <<>>
    /\ outstandingWork = 0
    /\ out = <<>>
    /\ err = <<>>
    /\ exitCode = {}
    /\ handlerCalls = 0
    /\ handlerEc = "none"
    /\ armTime = 0
    /\ startTime = 0
    /\ handlerTime = 0
    /\ run = 1
    /\ prev = [out |-> <<>>, err |-> <<>>, exitCode |-> {}, ec |-> "none"]

\* The steady clock advances.  Idle time is capped by MaxClock; while a wait
\* is pending the clock can always reach the timer's expiry.
Tick ==
    /\ \/ clock < MaxClock
       \/ (timerQueue # {} /\ clock < timer.expiry)
    /\ clock' = clock + 1
    /\ UNCHANGED <<run, prev>>
    /\ UNCHANGED <<pc, io, timer, timerQueue, opQueue, outstandingWork, out,
                   err, exitCode, handlerCalls, handlerEc, armTime, startTime,
                   handlerTime>>

\* boost::asio::io_context io;
IoCtor ==
    /\ pc = "io_ctor"
    /\ io' = TRUE
    /\ timerQueue' = {}
    /\ opQueue' = <<>>
    /\ outstandingWork' = 0
    /\ pc' = "timer_ctor"
    /\ UNCHANGED <<run, prev>>
    /\ UNCHANGED <<clock, timer, out, err, exitCode, handlerCalls, handlerEc,
                   armTime, startTime, handlerTime>>

\* boost::asio::steady_timer timer(io, std::chrono::seconds(2));
\* Variant of TimerCtor: the expiry is one second short of the delay.
TimerCtorShortDelay ==
    /\ pc = "timer_ctor"
    /\ io
    /\ timer' = [constructed |-> TRUE, expiry |-> clock + 1]
    /\ armTime' = clock
    /\ pc' = "print_starting"
    /\ UNCHANGED <<run, prev>>
    /\ UNCHANGED <<clock, io, timerQueue, opQueue, outstandingWork, out, err,
                   exitCode, handlerCalls, handlerEc, startTime, handlerTime>>
\* Variant of TimerCtor: control skips the "Starting timer..." statement.
TimerCtorSkipsPrint ==
    /\ pc = "timer_ctor"
    /\ io
    /\ timer' = [constructed |-> TRUE, expiry |-> clock + Delay]
    /\ armTime' = clock
    /\ pc' = "async_wait"
    /\ UNCHANGED <<run, prev>>
    /\ UNCHANGED <<clock, io, timerQueue, opQueue, outstandingWork, out, err,
                   exitCode, handlerCalls, handlerEc, startTime, handlerTime>>
\* The timer as the source constructs it.
TimerCtor ==
    /\ pc = "timer_ctor"
    /\ io
    /\ timer' = [constructed |-> TRUE, expiry |-> clock + Delay]
    /\ armTime' = clock
    /\ pc' = "print_starting"
    /\ UNCHANGED <<run, prev>>
    /\ UNCHANGED <<clock, io, timerQueue, opQueue, outstandingWork, out, err,
                   exitCode, handlerCalls, handlerEc, startTime, handlerTime>>

\* std::cout << "Starting timer...\n";
PrintStarting ==
    /\ pc = "print_starting"
    /\ out' = Append(out, StartingLine)
    /\ startTime' = clock
    /\ pc' = "async_wait"
    /\ UNCHANGED <<run, prev>>
    /\ UNCHANGED <<clock, io, timer, timerQueue, opQueue, outstandingWork, err,
                   exitCode, handlerCalls, handlerEc, armTime, handlerTime>>

\* timer.async_wait(lambda): the wait is queued on the reactor and counted
\* as outstanding work; the lambda is not invoked here.
\* Variant of AsyncWait: a wait on an expired timer invokes the lambda at once.
AsyncWaitInline ==
    /\ pc = "async_wait"
    /\ timer.constructed
    /\ IF clock >= timer.expiry
       THEN /\ out' = HandlerOut(Success, out)
            /\ err' = HandlerErr(Success, err)
            /\ handlerCalls' = handlerCalls + 1
            /\ handlerEc' = Success
            /\ handlerTime' = clock
            /\ UNCHANGED <<timerQueue, outstandingWork>>
       ELSE /\ timerQueue' = timerQueue \cup {"wait"}
            /\ outstandingWork' = outstandingWork + 1
            /\ UNCHANGED <<out, err, handlerCalls, handlerEc, handlerTime>>
    /\ pc' = "print_waiting"
    /\ UNCHANGED <<run, prev>>
    /\ UNCHANGED <<clock, io, timer, opQueue, exitCode, armTime, startTime>>
\* The registration as the source performs it.
AsyncWait ==
    /\ pc = "async_wait"
    /\ timer.constructed
    /\ timerQueue' = timerQueue \cup {"wait"}
    /\ outstandingWork' = outstandingWork + 1
    /\ pc' = "print_waiting"
    /\ UNCHANGED <<run, prev>>
    /\ UNCHANGED <<clock, io, timer, opQueue, out, err, exitCode, handlerCalls,
                   handlerEc, armTime, startTime, handlerTime>>

\* std::cout << "Waiting for timer...\n";
PrintWaiting ==
    /\ pc = "print_waiting"
    /\ out' = Append(out, WaitingLine)
    /\ pc' = "run"
    /\ UNCHANGED <<run, prev>>
    /\ UNCHANGED <<clock, io, timer, timerQueue, opQueue, outstandingWork, err,
                   exitCode, handlerCalls, handlerEc, armTime, startTime,
                   handlerTime>>

\* io.run(), the reactor: a wait whose expiry has been reached completes
\* without error and becomes ready.
\* Variant of ReactorWait: the expired wait completes with an error.
ReactorWaitAborts ==
    /\ pc = "run"
    /\ timerQueue # {}
    /\ clock >= timer.expiry
    /\ timerQueue' = {}
    /\ opQueue' = Append(opQueue, OperationAborted)
    /\ UNCHANGED <<run, prev>>
    /\ UNCHANGED <<pc, clock, io, timer, outstandingWork, out, err, exitCode,
                   handlerCalls, handlerEc, armTime, startTime, handlerTime>>
\* The completion as the reactor performs it.
ReactorWait ==
    /\ pc = "run"
    /\ timerQueue # {}
    /\ clock >= timer.expiry
    /\ timerQueue' = {}
    /\ opQueue' = Append(opQueue, Success)
    /\ UNCHANGED <<run, prev>>
    /\ UNCHANGED <<pc, clock, io, timer, outstandingWork, out, err, exitCode,
                   handlerCalls, handlerEc, armTime, startTime, handlerTime>>

\* io.run(), the dispatch: the ready operation is popped, the lambda is
\* invoked with its error_code and the operation stops counting as work.
\* Variant of Dispatch: the lambda re-arms the timer and waits on it again.
DispatchRearms ==
    /\ pc = "run"
    /\ opQueue # <<>>
    /\ out' = HandlerOut(Head(opQueue), out)
    /\ err' = HandlerErr(Head(opQueue), err)
    /\ opQueue' = Tail(opQueue)
    /\ timer' = [timer EXCEPT !.expiry = clock + Delay]
    /\ timerQueue' = timerQueue \cup {"wait"}
    /\ outstandingWork' = outstandingWork
    /\ handlerCalls' = handlerCalls + 1
    /\ handlerEc' = Head(opQueue)
    /\ handlerTime' = clock
    /\ UNCHANGED <<run, prev>>
    /\ UNCHANGED <<pc, clock, io, exitCode, armTime, startTime>>
\* Variant of Dispatch: the lambda also prints the time of its invocation.
DispatchPrintsTime ==
    /\ pc = "run"
    /\ opQueue # <<>>
    /\ out' = Append(HandlerOut(Head(opQueue), out), <<"at ", clock>>)
    /\ err' = HandlerErr(Head(opQueue), err)
    /\ opQueue' = Tail(opQueue)
    /\ outstandingWork' = outstandingWork - 1
    /\ handlerCalls' = handlerCalls + 1
    /\ handlerEc' = Head(opQueue)
    /\ handlerTime' = clock
    /\ UNCHANGED <<pc, clock, io, timer, timerQueue, exitCode, armTime,
                   startTime, run, prev>>
\* Variant of Dispatch: the ready operation is left on the queue.
DispatchKeepsOp ==
    /\ pc = "run"
    /\ opQueue # <<>>
    /\ out' = HandlerOut(Head(opQueue), out)
    /\ err' = HandlerErr(Head(opQueue), err)
    /\ opQueue' = opQueue
    /\ outstandingWork' = outstandingWork - 1
    /\ handlerCalls' = handlerCalls + 1
    /\ handlerEc' = Head(opQueue)
    /\ handlerTime' = clock
    /\ UNCHANGED <<run, prev>>
    /\ UNCHANGED <<pc, clock, io, timer, timerQueue, exitCode, armTime, startTime>>
\* Variant of Dispatch: the finished operation still counts as work.
DispatchKeepsWork ==
    /\ pc = "run"
    /\ opQueue # <<>>
    /\ out' = HandlerOut(Head(opQueue), out)
    /\ err' = HandlerErr(Head(opQueue), err)
    /\ opQueue' = Tail(opQueue)
    /\ outstandingWork' = outstandingWork
    /\ handlerCalls' = handlerCalls + 1
    /\ handlerEc' = Head(opQueue)
    /\ handlerTime' = clock
    /\ UNCHANGED <<run, prev>>
    /\ UNCHANGED <<pc, clock, io, timer, timerQueue, exitCode, armTime,
                   startTime>>
\* The dispatch as the loop performs it.
Dispatch ==
    /\ pc = "run"
    /\ opQueue # <<>>
    /\ out' = HandlerOut(Head(opQueue), out)
    /\ err' = HandlerErr(Head(opQueue), err)
    /\ opQueue' = Tail(opQueue)
    /\ outstandingWork' = outstandingWork - 1
    /\ handlerCalls' = handlerCalls + 1
    /\ handlerEc' = Head(opQueue)
    /\ handlerTime' = clock
    /\ UNCHANGED <<run, prev>>
    /\ UNCHANGED <<pc, clock, io, timer, timerQueue, exitCode, armTime,
                   startTime>>

\* io.run() returns when the io_context has no outstanding work.
\* Variant of RunReturn: run() returns while work is outstanding.
RunReturnEarly ==
    /\ pc = "run"
    /\ pc' = "print_done"
    /\ UNCHANGED <<run, prev>>
    /\ UNCHANGED <<clock, io, timer, timerQueue, opQueue, outstandingWork, out,
                   err, exitCode, handlerCalls, handlerEc, armTime, startTime,
                   handlerTime>>
\* The return as the loop performs it.
RunReturn ==
    /\ pc = "run"
    /\ outstandingWork = 0
    /\ pc' = "print_done"
    /\ UNCHANGED <<run, prev>>
    /\ UNCHANGED <<clock, io, timer, timerQueue, opQueue, outstandingWork, out,
                   err, exitCode, handlerCalls, handlerEc, armTime, startTime,
                   handlerTime>>

\* std::cout << "Done!\n";
PrintDone ==
    /\ pc = "print_done"
    /\ out' = Append(out, DoneLine)
    /\ pc' = "return"
    /\ UNCHANGED <<run, prev>>
    /\ UNCHANGED <<clock, io, timer, timerQueue, opQueue, outstandingWork, err,
                   exitCode, handlerCalls, handlerEc, armTime, startTime,
                   handlerTime>>

\* return 0; then the locals are destroyed: ~steady_timer cancels what is
\* still pending and ~io_context discards operations without invoking them.
\* Variant of Return: main returns 1.
ReturnNonZero ==
    /\ pc = "return"
    /\ exitCode' = {1}
    /\ timer' = [timer EXCEPT !.constructed = FALSE]
    /\ io' = FALSE
    /\ timerQueue' = {}
    /\ opQueue' = <<>>
    /\ outstandingWork' = 0
    /\ pc' = "exited"
    /\ UNCHANGED <<run, prev>>
    /\ UNCHANGED <<clock, out, err, handlerCalls, handlerEc, armTime,
                   startTime, handlerTime>>
\* The return as the source performs it.
Return ==
    /\ pc = "return"
    /\ exitCode' = {0}
    /\ timer' = [timer EXCEPT !.constructed = FALSE]
    /\ io' = FALSE
    /\ timerQueue' = {}
    /\ opQueue' = <<>>
    /\ outstandingWork' = 0
    /\ pc' = "exited"
    /\ UNCHANGED <<run, prev>>
    /\ UNCHANGED <<clock, out, err, handlerCalls, handlerEc, armTime,
                   startTime, handlerTime>>

\* Scenario B: the pending wait is cancelled before the deadline; it
\* completes at once with operation_aborted.
Cancel ==
    /\ timerQueue # {}
    /\ clock < timer.expiry
    /\ timerQueue' = {}
    /\ opQueue' = Append(opQueue, OperationAborted)
    /\ UNCHANGED <<run, prev>>
    /\ UNCHANGED <<pc, clock, io, timer, outstandingWork, out, err, exitCode,
                   handlerCalls, handlerEc, armTime, startTime, handlerTime>>

\* The statements of main, io.run()'s loop included.
Main ==
    \/ IoCtor
    \/ TimerCtor
    \/ PrintStarting
    \/ AsyncWait
    \/ PrintWaiting
    \/ ReactorWait
    \/ Dispatch
    \/ RunReturn
    \/ PrintDone
    \/ Return

\* The program as written: nothing cancels the timer.
Next ==
    \/ Main
    \/ Tick

Spec == Init /\ [][Next]_vars

\* The program with Scenario B's cancellation as an environment step.
NextCancel ==
    \/ Main
    \/ Tick
    \/ Cancel

SpecCancel == Init /\ [][NextCancel]_vars

\* The program is run again: a new process starts main with nothing of the
\* previous one but what it printed and returned, kept here for comparison;
\* the steady clock goes on.
Rerun ==
    /\ pc = "exited"
    /\ run < MaxRuns
    /\ run' = run + 1
    /\ prev' = [out |-> out, err |-> err, exitCode |-> exitCode, ec |-> handlerEc]
    /\ pc' = "io_ctor"
    /\ io' = FALSE
    /\ timer' = [constructed |-> FALSE, expiry |-> 0]
    /\ timerQueue' = {}
    /\ opQueue' = <<>>
    /\ outstandingWork' = 0
    /\ out' = <<>>
    /\ err' = <<>>
    /\ exitCode' = {}
    /\ handlerCalls' = 0
    /\ handlerEc' = "none"
    /\ armTime' = 0
    /\ startTime' = 0
    /\ handlerTime' = 0
    /\ UNCHANGED clock

\* Runs of the program in a row, each with or without Scenario B's
\* cancellation.
NextRerun ==
    \/ Main
    \/ Tick
    \/ Cancel
    \/ Rerun

SpecRerun == Init /\ [][NextRerun]_vars

\* The thread of main keeps running and time advances.
FairSpecCancel == SpecCancel /\ WF_vars(Main) /\ WF_vars(Tick)

(***************************************************************************)
(* Properties                                                              *)
(***************************************************************************)

Range(s) == {s[i] : i \in 1..Len(s)}

IsPrefix(s, t) == Len(s) <= Len(t) /\ s = SubSeq(t, 1, Len(s))

\* main has returned from io.run().
AfterRun == pc \in {"print_done", "return", "exited"}

SuccessOutput == <<StartingLine, WaitingLine, SuccessLine, DoneLine>>

ErrorOutput == <<StartingLine, WaitingLine, DoneLine>>

\* C1: when the wait completes without error, the lines main prints are
\* exactly "Starting timer...", "Waiting for timer...", the success message,
\* "Done!", in that order: until the program exits what is printed is a
\* prefix of that sequence, at exit it is the whole sequence, and nothing is
\* written to the error stream.
C1_SuccessSequence ==
    /\ handlerEc # OperationAborted => IsPrefix(out, SuccessOutput)
    /\ handlerEc = Success =>
          /\ err = <<>>
          /\ Len(out) >= 3
          /\ pc \in {"return", "exited"} => out = SuccessOutput

C1_Witness == pc = "exited" /\ handlerEc = Success /\ out = SuccessOutput

\* C2: whatever the timer outcome, the completion handler is invoked exactly
\* once: never a second time, and never zero times once io.run() has
\* returned or the program has exited.
C2_HandlerExactlyOnce ==
    /\ handlerCalls <= 1
    /\ AfterRun => handlerCalls = 1

C2_Witness ==
    pc = "exited" /\ handlerCalls = 1 /\ handlerEc = OperationAborted

\* C3: io.run() returns only after the handler invocation has completed and
\* no asynchronous work is pending: whenever run() has returned or "Done!"
\* is printed, the handler has run and no wait is pending, ready or counted.
C3_DoneAfterHandler ==
    (AfterRun \/ DoneLine \in Range(out)) =>
        /\ handlerCalls = 1
        /\ handlerEc \in {Success, OperationAborted}
        /\ timerQueue = {}
        /\ opQueue = <<>>
        /\ outstandingWork = 0

C3_Witness ==
    pc = "return" /\ DoneLine \in Range(out) /\ handlerEc = Success /\ io

\* C4: when the wait resolves with an error the handler prints the one line
\* "Timer error: <description>" to the error stream and nothing to standard
\* output; main goes on, prints "Done!" and exits with status 0.
C4_ErrorHandled ==
    handlerEc = OperationAborted =>
        /\ err = <<ErrorLine(OperationAborted)>>
        /\ SuccessLine \notin Range(out)
        /\ pc \in {"run", "print_done", "return", "exited"}
        /\ pc = "exited" => (out = ErrorOutput /\ exitCode = {0})

C4_Witness ==
    /\ pc = "exited"
    /\ handlerEc = OperationAborted
    /\ err = <<ErrorLine(OperationAborted)>>
    /\ out = ErrorOutput
    /\ exitCode = {0}

\* C5 as stated: on the success path the time between the printing of
\* "Starting timer..." and the invocation of the handler is at least the
\* delay of 2.
C5_ElapsedSinceStartingLine ==
    handlerEc = Success => handlerTime - startTime >= Delay

\* C5, amended: on the success path the time between the construction of
\* the timer, which sets the deadline before "Starting timer..." is printed,
\* and the invocation of the handler is at least the delay of 2; the
\* handler never receives the no-error outcome before the deadline.
C5_ElapsedSinceArmed ==
    handlerEc = Success =>
        /\ handlerTime - armTime >= Delay
        /\ handlerTime >= timer.expiry
        /\ startTime >= armTime

C5_Witness ==
    /\ handlerEc = Success
    /\ handlerTime - armTime = Delay
    /\ handlerTime - startTime < Delay

\* A wait has been registered on the timer and not yet handled, or handled.
WaitRegistered ==
    timerQueue # {} \/ opQueue # <<>> \/ outstandingWork > 0 \/ handlerCalls > 0

\* C6 as stated: the start-up steps happen in the order print "starting",
\* arm the timer against a fresh context, register the handler, print
\* "waiting", run the loop; the "starting" message is printed before the
\* timer's deadline is set.
C6_StartingBeforeArmed ==
    [][/\ (~timer.constructed /\ timer'.constructed) =>
              (io /\ ~WaitRegistered /\ out = <<StartingLine>>)
       /\ (~WaitRegistered /\ WaitRegistered') =>
              (timer.constructed /\ out = <<StartingLine>>)
       /\ (WaitingLine \notin Range(out) /\ WaitingLine \in Range(out')) =>
              (WaitRegistered /\ out = <<StartingLine>>)
       /\ (handlerCalls' # handlerCalls \/ opQueue' # opQueue) =>
              (pc = "run" /\ out = <<StartingLine, WaitingLine>>)]_vars

\* C6, amended: the start-up steps happen in the order create the context,
\* arm the timer with its 2-second deadline against that fresh context,
\* print "starting", register the handler, print "waiting", run the loop;
\* the "starting" message is printed after the timer's deadline is set.
C6_StartupOrder ==
    [][/\ (~timer.constructed /\ timer'.constructed) =>
              /\ io /\ ~WaitRegistered /\ out = <<>>
              /\ timer'.expiry = clock + Delay
       /\ (out = <<>> /\ out' # <<>>) =>
              (timer.constructed /\ ~WaitRegistered /\ out' = <<StartingLine>>)
       /\ (~WaitRegistered /\ WaitRegistered') =>
              (timer.constructed /\ out = <<StartingLine>>)
       /\ (WaitingLine \notin Range(out) /\ WaitingLine \in Range(out')) =>
              (WaitRegistered /\ out = <<StartingLine>>)
       /\ (handlerCalls' # handlerCalls \/ opQueue' # opQueue) =>
              (pc = "run" /\ out = <<StartingLine, WaitingLine>>)]_vars

C6_Witness ==
    /\ pc = "run"
    /\ out = <<StartingLine, WaitingLine>>
    /\ opQueue = <<Success>>
    /\ startTime > armTime

\* C7: every path that terminates does so with exit code 0: the program has
\* an exit status exactly when main has returned, and that status is 0.
C7_ExitCodeZero ==
    /\ exitCode \subseteq {0}
    /\ pc = "exited" <=> exitCode # {}

C7_Witness == pc = "exited" /\ exitCode = {0} /\ err # <<>>

\* The timer's state in the terms of the state machine of C9.
TimerState ==
    IF handlerCalls > 0 THEN "Done"
    ELSE IF opQueue # <<>>
         THEN (IF Head(opQueue) = Success THEN "Fired" ELSE "Cancelled")
    ELSE IF timer.constructed THEN "Armed"
    ELSE "None"

TimerEdges ==
    {<<"None", "Armed">>, <<"Armed", "Fired">>, <<"Armed", "Cancelled">>,
     <<"Fired", "Done">>, <<"Cancelled", "Done">>}

\* C9: the timer follows Armed -> Fired -> Done or Armed -> Cancelled -> Done:
\* it is Armed when constructed, every change of state is one of these edges
\* (so it leaves Armed once, never moves between Fired and Cancelled and
\* never returns to Armed), Done is never left, and Done is entered only by
\* an invocation of the handler with the outcome of the state it leaves.
C9_TimerStateMachine ==
    [][/\ TimerState' # TimerState => <<TimerState, TimerState'>> \in TimerEdges
       /\ (~timer.constructed /\ timer'.constructed) => TimerState' = "Armed"
       /\ (TimerState # "Done" /\ TimerState' = "Done") =>
              /\ handlerCalls' = handlerCalls + 1
              /\ TimerState = "Fired" => handlerEc' = Success
              /\ TimerState = "Cancelled" => handlerEc' = OperationAborted]_vars

C9_Witness ==
    TimerState = "Done" /\ handlerEc = OperationAborted /\ pc = "run"

\* C10: every run eventually terminates: if the thread of main keeps
\* running and time advances, the timer resolves, io.run() returns, "Done!"
\* is printed and the program exits, whether the wait succeeded or failed.
C10_Terminates ==
    <>(pc = "exited" /\ DoneLine \in Range(out) /\ handlerCalls = 1)

C10_Witness ==
    pc = "exited" /\ DoneLine \in Range(out) /\ exitCode = {0} /\ clock > MaxClock

\* C12: per run exactly one of the two handler outputs is produced: never
\* both the success message and the "Timer error: ..." line, and one of
\* them once io.run() has returned; the error line appears only if the wait
\* completed with an error, the success message only if it completed
\* without one, and each at most once.
C12_ExactlyOneHandlerOutput ==
    /\ ~(SuccessLine \in Range(out) /\ err # <<>>)
    /\ AfterRun => (SuccessLine \in Range(out) \/ err # <<>>)
    /\ err # <<>> => (handlerEc = OperationAborted /\ Len(err) = 1)
    /\ SuccessLine \in Range(out) =>
          /\ handlerEc = Success
          /\ Cardinality({i \in 1..Len(out) : out[i] = SuccessLine}) = 1

C12_Witness ==
    /\ pc = "print_done"
    /\ err = <<ErrorLine(OperationAborted)>>
    /\ SuccessLine \notin Range(out)

\* C13: the completion handler changes nothing except console output: the
\* step that invokes it leaves the timer, the reactor's timer queue, the
\* context, main's position and the exit status as they were, registers no
\* further work (the finished wait alone leaves the ready queue and the
\* work count), writes at most one line to one stream, and leaves no work
\* pending on the event loop.
C13_HandlerOnlyPrints ==
    [][handlerCalls' # handlerCalls =>
          /\ timer' = timer
          /\ timerQueue' = timerQueue
          /\ io' = io
          /\ pc' = pc
          /\ exitCode' = exitCode
          /\ opQueue' = Tail(opQueue)
          /\ outstandingWork' = outstandingWork - 1
          /\ timerQueue' = {} /\ opQueue' = <<>> /\ outstandingWork' = 0
          /\ \/ (out' = Append(out, SuccessLine) /\ err' = err)
             \/ (out' = out /\ err' = Append(err, ErrorLine(OperationAborted)))]_vars

C13_Witness ==
    /\ pc = "run"
    /\ handlerCalls = 1
    /\ timer.constructed
    /\ timerQueue = {}
    /\ opQueue = <<>>
    /\ outstandingWork = 0
    /\ DoneLine \notin Range(out)

\* C14: the completion handler is invoked only while io.run() is in
\* progress: every invocation, and every line the handler writes, happens
\* with main inside run(), after "Waiting for timer..." and before "Done!";
\* async_wait never invokes it, even when the deadline has already elapsed
\* at registration.
C14_HandlerOnlyInsideRun ==
    [][/\ (\/ handlerCalls' # handlerCalls
           \/ err' # err
           \/ (SuccessLine \notin Range(out) /\ SuccessLine \in Range(out'))) =>
              /\ pc = "run" /\ pc' = "run"
              /\ out = <<StartingLine, WaitingLine>>
              /\ DoneLine \notin Range(out')
       /\ pc = "async_wait" =>
              (handlerCalls' = handlerCalls /\ out' = out /\ err' = err)]_vars

\* The deadline had elapsed when the wait was registered, and the handler
\* then ran inside io.run().
C14_Witness ==
    /\ pc = "run"
    /\ handlerCalls = 1
    /\ handlerEc = Success
    /\ startTime >= timer.expiry
    /\ out = <<StartingLine, WaitingLine, SuccessLine>>

\* C15: in the program as written, where nothing cancels the timer and the
\* timer and the context outlive io.run(), the error branch of the handler
\* is unreachable: no wait completes with an error, the handler receives
\* only the no-error outcome, standard error stays empty, and standard
\* output at exit is the four-line success sequence.
C15_ErrorBranchUnreachable ==
    /\ handlerEc \in {"none", Success}
    /\ \A i \in 1..Len(opQueue) : opQueue[i] = Success
    /\ err = <<>>
    /\ (timerQueue # {} \/ opQueue # <<>>) => (timer.constructed /\ io)
    /\ handlerCalls > 0 => handlerEc = Success
    /\ pc = "exited" => out = SuccessOutput

C15_Witness ==
    /\ pc = "exited"
    /\ handlerCalls = 1
    /\ handlerEc = Success
    /\ err = <<>>
    /\ exitCode = {0}
    /\ handlerTime > timer.expiry

\* C11: two runs of the program with the same timer outcome are
\* indistinguishable by their output and exit code: when a later run has
\* exited having received the outcome the previous run received, it has
\* printed the same lines to both streams and returned the same status,
\* whatever the times at which the two runs took their steps; and a run
\* starts from the state the first run started from.
C11_RunsIndistinguishable ==
    /\ (run > 1 /\ pc = "exited" /\ handlerEc = prev.ec) =>
          /\ out = prev.out
          /\ err = prev.err
          /\ exitCode = prev.exitCode
    /\ (run > 1 /\ pc = "io_ctor") =>
          /\ ~io /\ ~timer.constructed
          /\ timerQueue = {} /\ opQueue = <<>> /\ outstandingWork = 0
          /\ out = <<>> /\ err = <<>> /\ exitCode = {}

C11_Witness ==
    /\ run = 2
    /\ pc = "exited"
    /\ handlerEc = Success
    /\ prev.ec = Success
    /\ out = prev.out
    /\ Len(out) = 4
    /\ armTime >= Delay

====
